---------------------------- MODULE Spec2Model ----------------------------
(***************************************************************************)
(* Model of the review-queue Slack bot (src/slack_handler.go).             *)
(*                                                                         *)
(* The state is the SlackHandler (the Queues map, NextID and the mutex     *)
(* mu) together with one record of locals per request goroutine.  Every    *)
(* handler is cut into steps at its Lock, PostMessage and Unlock calls, so *)
(* that the goroutines interleave as net/http runs them.                   *)
(*                                                                         *)
(* A text is a sequence of one-character strings; the literals of the      *)
(* program's format strings are kept as single elements of such a          *)
(* sequence, so fmt.Sprintf is concatenation.                              *)
(***************************************************************************)
EXTENDS Integers, Sequences, FiniteSets, TLC

(***************************************************************************)
(* Bounds of the model.                                                    *)
(***************************************************************************)
\* number of request goroutines that may run at the same time
NumProcs == 2
\* number of events delivered in one behaviour
MaxCmds == 3
\* number of events delivered in one behaviour that handles them one by one
MaxSeqCmds == 4
\* number of events delivered in one behaviour that is checked for progress
MaxLiveCmds == 2

Procs == 1..NumProcs

\* mu's value when no goroutine holds it
NoProc == 0

(***************************************************************************)
(* Texts: strings.TrimSpace, strings.HasPrefix, strings.Fields,            *)
(* strings.Join, strconv.Atoi and the %d verb of fmt.Sprintf.              *)
(***************************************************************************)
IsSpace(c) == c \in {" ", "\t", "\n"}

RECURSIVE TrimLeft(_)
TrimLeft(s) ==
  IF s # <<>> /\ IsSpace(Head(s)) THEN TrimLeft(Tail(s)) ELSE s

RECURSIVE TrimRight(_)
TrimRight(s) ==
  IF s # <<>> /\ IsSpace(s[Len(s)]) THEN TrimRight(SubSeq(s, 1, Len(s) - 1)) ELSE s

TrimSpace(s) == TrimRight(TrimLeft(s))

HasPrefix(s, prefix) ==
  /\ Len(s) >= Len(prefix)
  /\ SubSeq(s, 1, Len(prefix)) = prefix

\* strings.Fields: the maximal runs of non-space characters, in order
RECURSIVE FieldsFrom(_, _, _)
FieldsFrom(s, cur, acc) ==
  IF s = <<>>
    THEN IF cur = <<>> THEN acc ELSE Append(acc, cur)
    ELSE IF IsSpace(Head(s))
           THEN FieldsFrom(Tail(s), <<>>, IF cur = <<>> THEN acc ELSE Append(acc, cur))
           ELSE FieldsFrom(Tail(s), Append(cur, Head(s)), acc)

Fields(s) == FieldsFrom(s, <<>>, <<>>)

\* strings.Join
RECURSIVE Join(_, _)
Join(elems, sep) ==
  IF elems = <<>> THEN <<>>
  ELSE IF Len(elems) = 1 THEN elems[1]
  ELSE elems[1] \o sep \o Join(Tail(elems), sep)

DigitChars == <<"0", "1", "2", "3", "4", "5", "6", "7", "8", "9">>

IsDigit(c) == \E i \in 1..Len(DigitChars) : DigitChars[i] = c

DigitVal(c) == (CHOOSE i \in 1..Len(DigitChars) : DigitChars[i] = c) - 1

RECURSIVE DigitsVal(_, _)
DigitsVal(s, acc) ==
  IF s = <<>> THEN acc ELSE DigitsVal(Tail(s), acc * Len(DigitChars) + DigitVal(Head(s)))

\* strconv.Atoi: an optional sign and then one or more decimal digits
Atoi(s) ==
  LET signed == s # <<>> /\ Head(s) \in {"+", "-"}
      digits == IF signed THEN Tail(s) ELSE s
  IN IF digits = <<>> \/ \E i \in 1..Len(digits) : ~IsDigit(digits[i])
       THEN [err |-> TRUE, val |-> 0]
       ELSE [err |-> FALSE,
             val |-> IF signed /\ Head(s) = "-"
                       THEN 0 - DigitsVal(digits, 0)
                       ELSE DigitsVal(digits, 0)]

RECURSIVE NatToText(_)
NatToText(n) ==
  IF n < Len(DigitChars) THEN <<DigitChars[n + 1]>>
  ELSE Append(NatToText(n \div Len(DigitChars)), DigitChars[(n % Len(DigitChars)) + 1])

\* the %d verb
Itoa(n) == IF n < 0 THEN <<"-">> \o NatToText(0 - n) ELSE NatToText(n)


(***************************************************************************)
(* The events delivered to the bot.                                        *)
(***************************************************************************)
kwQueue   == <<"q", "u", "e", "u", "e">>
kwAdd     == <<"a", "d", "d">>
kwList    == <<"l", "i", "s", "t">>
kwRemove  == <<"r", "e", "m", "o", "v", "e">>
kwApprove == <<"a", "p", "p", "r", "o", "v", "e">>
kwReview  == <<"r", "e", "v", "i", "e", "w">>
kwUpdate  == <<"u", "p", "d", "a", "t", "e">>
kwHelp    == <<"h", "e", "l", "p">>

\* the prefixes handleCallbackEvent tests for
Command(verb) == kwQueue \o <<" ">> \o verb

\* Slack user ids
UserA == <<"a">>
UserB == <<"b">>
UserC == <<"c">>
\* sh.BotUserID, the bot's own user id
BotUserID == <<"z">>

\* the mention of a user as Slack writes it in a message text: <@user>
Mention(user) == <<"<", "@">> \o user \o <<">">>

\* a message text: its tokens separated by single spaces
Text(tokens) == Join(tokens, <<" ">>)

\* the argument lists of the events of the model
AddArgs ==
  { << <<"T">> >>,
    << <<"T">>, <<"L">> >>,
    << <<"T">>, <<"L">>, Mention(UserA) >>,
    << <<"T">>, <<"L">>, Mention(UserA), Mention(UserB) >>,
    << <<"T">>, <<"L">>, Mention(UserA), Mention(UserB), Mention(UserA) >> }

IdArgs == { <<>>, << <<"x">> >>, << <<"1">> >> }

MessageEvent(text, user, subType) ==
  [Text |-> text, User |-> user, SubType |-> subType]

Events ==
       { MessageEvent(Text(<<kwQueue, kwAdd>> \o args), u, <<>>) :
           args \in AddArgs, u \in {UserA, UserC} }
  \cup { MessageEvent(Text(<<kwQueue, kwApprove>> \o args), u, <<>>) :
           args \in IdArgs, u \in {UserA, UserB, UserC} }
  \cup { MessageEvent(Text(<<kwQueue, verb>> \o args), UserA, <<>>) :
           verb \in {kwRemove, kwReview, kwUpdate}, args \in IdArgs }
  \cup { MessageEvent(Text(<<kwQueue, kwRemove, <<"0", "1">> >>), UserA, <<>>),
         MessageEvent(Text(<<kwQueue, kwRemove \o <<"d">>, <<"1">> >>), UserA, <<>>),
         MessageEvent(Text(<<kwQueue, kwList>>), UserA, <<>>),
         MessageEvent(Text(<<kwQueue, kwHelp>>), UserA, <<>>),
         MessageEvent(Text(<<kwQueue>>), UserA, <<>>),
         MessageEvent(Text(<<kwQueue, kwList>>), BotUserID, <<>>),
         MessageEvent(Text(<<kwQueue, kwList>>), UserA, <<"message_changed">>) }

NoEvent == MessageEvent(<<>>, <<>>, <<>>)

(***************************************************************************)
(* The texts the handlers post.                                            *)
(***************************************************************************)
UsageAddMsg     == <<"Usage: queue add <title> <MR link> @tag @tag">>
NoQueuesMsg     == <<"No queues available.">>
NotFoundMsg     == <<"Queue not found.">>
RemovedMsg      == <<"Queue removed.">>
UsageApproveMsg == <<"Usage: queue approve <id>">>
InvalidIDMsg    == <<"Invalid queue ID.">>
ApprovedMsg     == <<"Queue approved and tag removed.">>
TagNotFoundMsg  == <<"Your tag was not found in the queue.">>
CompletedMsg    == <<"Queue completed; no tags left.">>
UsageIDMsg      == <<"Usage: <command> <id>">>
\* the help text; a string of the module cannot hold the backquotes that
\* surround each command in the source, so they are written as quotes here
HelpMsg ==
  <<"Here are the available queue commands:\n",
    "- 'queue add <title> <link> @tag @tag...': Adds a queue with a title, link, and optional tags (user mentions)\n",
    "  Example: 'queue add \"New Feature\" https://example.com @user1 @user2'\n",
    "- 'queue list': Lists all queues\n",
    "- 'queue remove <queueID>': Removes a queue by ID\n",
    "- 'queue approve <queueID>': Approves a queue by ID\n",
    "- 'queue review <queueID>': Marks a queue as under review\n",
    "- 'queue update <queueID>': Updates a queue\n",
    "- 'queue help': Displays this help message">>

QueueAddedMsg(queue) ==
  <<"Queue added: *">> \o queue.Title \o <<"*\nMR Link: ">> \o queue.MRLink
    \o <<"\nTags: ">> \o Join(queue.Tags, <<", ">>)

InReviewMsg(queue) == <<"Queue ">> \o Itoa(queue.ID) \o <<" is now in review.">>

UpdatedMsg(queue) ==
  <<"Queue ">> \o Itoa(queue.ID) \o <<" has been updated and is no longer in review.">>

\* a line that shows the owner only when no tag is left to show
QueueLine_OwnerWhenNoTags(queue) ==
  LET mention == IF queue.InReviewState /\ queue.Tags = <<>>
                   THEN <<"Owner: ">> \o Mention(queue.Owner)
                   ELSE <<"Tags: ">> \o Join(queue.Tags, <<", ">>)
  IN <<"ID: ">> \o Itoa(queue.ID) \o <<" | Title: ">> \o queue.Title
       \o <<" | MR: ">> \o queue.MRLink \o <<" | ">> \o mention \o <<"\n">>

\* one line of handleQueueList's rendering
QueueLine(queue) ==
  LET mention == IF queue.InReviewState
                   THEN <<"Owner: ">> \o Mention(queue.Owner)
                   ELSE <<"Tags: ">> \o Join(queue.Tags, <<", ">>)
  IN <<"ID: ">> \o Itoa(queue.ID) \o <<" | Title: ">> \o queue.Title
       \o <<" | MR: ">> \o queue.MRLink \o <<" | ">> \o mention \o <<"\n">>

\* the lines of the queues visited in the order `order`
RECURSIVE QueueList(_, _)
QueueList(queues, order) ==
  IF order = <<>> THEN <<>>
  ELSE QueueLine(queues[Head(order)]) \o QueueList(queues, Tail(order))

\* a range that may visit a key twice and leave another out
RangeOrders_WithRepeats(keys) == [1..Cardinality(keys) -> keys]

\* the orders in which a range over a map may visit its keys
RangeOrders(keys) ==
  { o \in [1..Cardinality(keys) -> keys] :
      \A i, j \in 1..Cardinality(keys) : i # j => o[i] # o[j] }


(***************************************************************************)
(* The state.                                                              *)
(***************************************************************************)
VARIABLES
  Queues,     \* sh.Queues: the map from id to the Queue it points to
  NextID,     \* sh.NextID
  mu,         \* sh.mu: the goroutine that holds it, or NoProc
  pc,         \* where each goroutine is in its handler
  ev,         \* the event each goroutine handles
  id,         \* the handler's local id
  tagIndex,   \* handleQueueApprove's local tagIndex
  queue,      \* handleQueueAdd's local queue
  msg,        \* the text the handler posts next
  replies,    \* what each goroutine has posted for its event, in order
  budget,     \* the number of events still to be delivered
  log,        \* history: the inserts, deletes and tag removals, in order
  started,    \* history: the length of log when the handler's event arrived
  dirty       \* history: has the handler changed Queues or NextID

shared == <<Queues, NextID, mu>>
vars == <<Queues, NextID, mu, pc, ev, id, tagIndex, queue, msg, replies,
          budget, log, started, dirty>>

\* the Queue a handler builds or finds
NewQueue(qid, title, link, tags, owner) ==
  [ID |-> qid, Title |-> title, MRLink |-> link, Tags |-> tags,
   Owner |-> owner, InReviewState |-> FALSE]

\* the value of the locals outside their scope
NoQueue == NewQueue(0, <<>>, <<>>, <<>>, <<>>)
NoID == 0
NoIndex == -1

\* NewSlackHandler
Init ==
  /\ Queues = <<>>
  /\ NextID = 1
  /\ mu = NoProc
  /\ pc = [p \in Procs |-> "idle"]
  /\ ev = [p \in Procs |-> NoEvent]
  /\ id = [p \in Procs |-> NoID]
  /\ tagIndex = [p \in Procs |-> NoIndex]
  /\ queue = [p \in Procs |-> NoQueue]
  /\ msg = [p \in Procs |-> <<>>]
  /\ replies = [p \in Procs |-> <<>>]
  /\ budget = MaxCmds
  /\ log = <<>>
  /\ started = [p \in Procs |-> 0]
  /\ dirty = [p \in Procs |-> FALSE]

(***************************************************************************)
(* The mutex and the Slack client.                                         *)
(***************************************************************************)
\* a mutex that does not exclude: Lock() returns at once
CanLock_NotExclusive(p) == TRUE

\* sh.mu.Lock() returns only when no goroutine holds the mutex
CanLock(p) == mu = NoProc

\* sh.API.PostMessage: the text, and whether the caller held sh.mu
PostMessage(p, text) ==
  [replies EXCEPT ![p] = Append(@, [text |-> text, locked |-> (mu = p)])]

\* a handler returns: its locals go out of scope
Return(p) ==
  /\ id' = [id EXCEPT ![p] = NoID]
  /\ tagIndex' = [tagIndex EXCEPT ![p] = NoIndex]
  /\ queue' = [queue EXCEPT ![p] = NoQueue]
  /\ msg' = [msg EXCEPT ![p] = <<>>]

\* dirty[p] records whether p's handler has changed the map or NextID since
\* its event arrived, until the handler returns; every step of p updates it
Track(p) ==
  dirty' = [dirty EXCEPT ![p] =
              IF pc'[p] = "idle" THEN FALSE
              ELSE @ \/ Queues' # Queues \/ NextID' # NextID]

(***************************************************************************)
(* handleCallbackEvent: an event arrives and is dispatched on the prefix   *)
(* of its trimmed text.                                                    *)
(***************************************************************************)
Dispatch(e) ==
  LET command == TrimSpace(e.Text)
  IN IF e.User = BotUserID \/ e.SubType # <<>> THEN "done"
     ELSE IF HasPrefix(command, Command(kwAdd)) THEN "add"
     ELSE IF HasPrefix(command, Command(kwList)) THEN "list"
     ELSE IF HasPrefix(command, Command(kwRemove)) THEN "remove"
     ELSE IF HasPrefix(command, Command(kwApprove)) THEN "approve"
     ELSE IF HasPrefix(command, Command(kwReview)) THEN "review"
     ELSE IF HasPrefix(command, Command(kwUpdate)) THEN "update"
     ELSE IF HasPrefix(command, Command(kwHelp)) THEN "help"
     ELSE "done"

handleCallbackEvent(p) ==
  /\ pc[p] = "idle"
  /\ budget > 0
  /\ \E e \in Events :
       /\ ev' = [ev EXCEPT ![p] = e]
       /\ pc' = [pc EXCEPT ![p] = Dispatch(e)]
  /\ budget' = budget - 1
  /\ started' = [started EXCEPT ![p] = Len(log)]
  /\ UNCHANGED <<shared, id, tagIndex, queue, msg, replies,
                 log>>
  /\ Track(p)

\* HandleEventEndpoint returns and the goroutine of the request ends
HandleEventEndpoint_Return(p) ==
  /\ pc[p] = "done"
  /\ pc' = [pc EXCEPT ![p] = "idle"]
  /\ ev' = [ev EXCEPT ![p] = NoEvent]
  /\ replies' = [replies EXCEPT ![p] = <<>>]
  /\ started' = [started EXCEPT ![p] = 0]
  /\ UNCHANGED <<shared, id, tagIndex, queue, msg, budget,
                 log>>
  /\ Track(p)


(***************************************************************************)
(* The operations on the map, on NextID and on an entry's tags.            *)
(***************************************************************************)
\* _, exists := sh.Queues[key]
Exists(queues, key) == key \in DOMAIN queues

\* sh.Queues[key] = q
InsertQueue(queues, key, q) ==
  [k \in DOMAIN queues \cup {key} |-> IF k = key THEN q ELSE queues[k]]

\* sh.NextID++
IncrementID(n) == n + 1

\* a delete that was left out
DeleteQueue_Forgotten(queues, key) == queues

\* delete(sh.Queues, key)
DeleteQueue(queues, key) == [k \in DOMAIN queues \ {key} |-> queues[k]]

\* a search without its break: the index of the last tag equal to tag
RECURSIVE FindTag_NoBreakFrom(_, _, _, _)
FindTag_NoBreakFrom(tags, tag, i, found) ==
  IF i >= Len(tags) THEN found
  ELSE FindTag_NoBreakFrom(tags, tag, i + 1, IF tags[i + 1] = tag THEN i ELSE found)

FindTag_NoBreak(tags, tag) == FindTag_NoBreakFrom(tags, tag, 0, -1)

\* a search whose tagIndex starts at 0 and not at -1
FindTag_ZeroDefault(tags, tag) ==
  IF \E i \in 1..Len(tags) : tags[i] = tag
    THEN (CHOOSE i \in 1..Len(tags) :
            tags[i] = tag /\ \A j \in 1..(i - 1) : tags[j] # tag) - 1
    ELSE 0

\* the loop that looks for approvedTag: the index (from 0) of the first
\* tag equal to it, or -1
RECURSIVE FindTagFrom(_, _, _)
FindTagFrom(tags, tag, i) ==
  IF i >= Len(tags) THEN NoIndex
  ELSE IF tags[i + 1] = tag THEN i
  ELSE FindTagFrom(tags, tag, i + 1)

FindTag(tags, tag) == FindTagFrom(tags, tag, 0)

\* a removal that puts the tag it took out back at the end
RemoveTag_MovesToEnd(tags, i) ==
  SubSeq(tags, 1, i) \o SubSeq(tags, i + 2, Len(tags)) \o <<tags[i + 1]>>

\* append(tags[:i], tags[i+1:]...)
RemoveTag(tags, i) == SubSeq(tags, 1, i) \o SubSeq(tags, i + 2, Len(tags))

\* an assignment of tags that drops the entry when no tag is left
SetTags_DeleteWhenEmpty(queues, key, tags) ==
  IF key \notin DOMAIN queues THEN queues
  ELSE IF tags = <<>> THEN [k \in DOMAIN queues \ {key} |-> queues[k]]
  ELSE [queues EXCEPT ![key].Tags = tags]

\* an assignment through the pointer found at sh.Queues[key]
SetTags(queues, key, tags) ==
  IF Exists(queues, key) THEN [queues EXCEPT ![key].Tags = tags] ELSE queues

\* an update copied from review that still assigns true
SetInReviewState_AlwaysTrue(queues, key, state) ==
  IF key \in DOMAIN queues THEN [queues EXCEPT ![key].InReviewState = TRUE] ELSE queues

SetInReviewState(queues, key, state) ==
  IF Exists(queues, key) THEN [queues EXCEPT ![key].InReviewState = state] ELSE queues

\* parseQueueID
parseQueueID(command) ==
  LET parts == Fields(command)
  IN IF Len(parts) < 3 THEN [err |-> TRUE, id |-> 0, text |-> UsageIDMsg]
     ELSE IF Atoi(parts[3]).err THEN [err |-> TRUE, id |-> 0, text |-> InvalidIDMsg]
     ELSE [err |-> FALSE, id |-> Atoi(parts[3]).val, text |-> <<>>]

\* an add that takes its id before it looks at its arguments
handleQueueAdd_ReserveFirst(p) ==
  /\ pc[p] = "add"
  /\ NextID' = NextID + 1
  /\ IF Len(Fields(ev[p].Text)) < 4
       THEN /\ replies' = PostMessage(p, UsageAddMsg)
            /\ pc' = [pc EXCEPT ![p] = "done"]
       ELSE /\ pc' = [pc EXCEPT ![p] = "add_lock"]
            /\ UNCHANGED replies
  /\ UNCHANGED <<Queues, mu, ev, id, tagIndex, queue, msg, budget, log, started>>
  /\ Track(p)

(***************************************************************************)
(* handleQueueAdd                                                          *)
(***************************************************************************)
handleQueueAdd(p) ==
  /\ pc[p] = "add"
  /\ IF Len(Fields(ev[p].Text)) < 4
       THEN /\ replies' = PostMessage(p, UsageAddMsg)
            /\ pc' = [pc EXCEPT ![p] = "done"]
       ELSE /\ pc' = [pc EXCEPT ![p] = "add_lock"]
            /\ UNCHANGED replies
  /\ UNCHANGED <<shared, ev, id, tagIndex, queue, msg, budget,
                 log, started>>
  /\ Track(p)

\* sh.mu.Lock() and the construction of the Queue
handleQueueAdd_Lock(p) ==
  /\ pc[p] = "add_lock"
  /\ CanLock(p)
  /\ mu' = p
  /\ LET parts == Fields(ev[p].Text)
     IN queue' = [queue EXCEPT ![p] =
                    NewQueue(NextID, parts[3], parts[4],
                             SubSeq(parts, 5, Len(parts)), ev[p].User)]
  /\ pc' = [pc EXCEPT ![p] = "add_insert"]
  /\ UNCHANGED <<Queues, NextID, ev, id, tagIndex, msg, replies, budget,
                 log, started>>
  /\ Track(p)

\* an add that increments NextID before it stores the Queue under it
handleQueueAdd_Insert_IncrementFirst(p) ==
  /\ pc[p] = "add_insert"
  /\ NextID' = IncrementID(NextID)
  /\ Queues' = InsertQueue(Queues, IncrementID(NextID), queue[p])
  /\ msg' = [msg EXCEPT ![p] = QueueAddedMsg(queue[p])]
  /\ log' = Append(log, [op |-> "add", key |-> IncrementID(NextID), queue |-> queue[p]])
  /\ pc' = [pc EXCEPT ![p] = "add_post"]
  /\ UNCHANGED <<mu, ev, id, tagIndex, queue, replies, budget, started>>
  /\ Track(p)

\* the insert, the increment and the confirmation text
handleQueueAdd_Insert(p) ==
  /\ pc[p] = "add_insert"
  /\ Queues' = InsertQueue(Queues, NextID, queue[p])
  /\ NextID' = IncrementID(NextID)
  /\ msg' = [msg EXCEPT ![p] = QueueAddedMsg(queue[p])]
  /\ log' = Append(log, [op |-> "add", key |-> NextID, queue |-> queue[p]])
  /\ pc' = [pc EXCEPT ![p] = "add_post"]
  /\ UNCHANGED <<mu, ev, id, tagIndex, queue, replies, budget, started>>
  /\ Track(p)

handleQueueAdd_Post(p) ==
  /\ pc[p] = "add_post"
  /\ replies' = PostMessage(p, msg[p])
  /\ pc' = [pc EXCEPT ![p] = "add_unlock"]
  /\ UNCHANGED <<shared, ev, id, tagIndex, queue, msg, budget,
                 log, started>>
  /\ Track(p)

\* the deferred sh.mu.Unlock()
handleQueueAdd_Unlock(p) ==
  /\ pc[p] = "add_unlock"
  /\ mu' = NoProc
  /\ pc' = [pc EXCEPT ![p] = "done"]
  /\ Return(p)
  /\ UNCHANGED <<Queues, NextID, ev, replies, budget,
                 log, started>>
  /\ Track(p)

(***************************************************************************)
(* handleQueueList, as a command and as the last call of approve, review   *)
(* and update.                                                             *)
(***************************************************************************)
\* a list that reads the map without taking the mutex
handleQueueList_NoLock(p) ==
  /\ pc[p] = "list"
  /\ IF Cardinality(DOMAIN Queues) = 0
       THEN msg' = [msg EXCEPT ![p] = NoQueuesMsg]
       ELSE \E order \in RangeOrders(DOMAIN Queues) :
              msg' = [msg EXCEPT ![p] = QueueList(Queues, order)]
  /\ pc' = [pc EXCEPT ![p] = "list_post"]
  /\ UNCHANGED <<Queues, NextID, mu, ev, id, tagIndex, queue, replies, budget,
                 log, started>>
  /\ Track(p)

\* sh.mu.Lock() and the rendering
handleQueueList(p) ==
  /\ pc[p] = "list"
  /\ CanLock(p)
  /\ mu' = p
  /\ IF Cardinality(DOMAIN Queues) = 0
       THEN msg' = [msg EXCEPT ![p] = NoQueuesMsg]
       ELSE \E order \in RangeOrders(DOMAIN Queues) :
              msg' = [msg EXCEPT ![p] = QueueList(Queues, order)]
  /\ pc' = [pc EXCEPT ![p] = "list_post"]
  /\ UNCHANGED <<Queues, NextID, ev, id, tagIndex, queue, replies, budget,
                 log, started>>
  /\ Track(p)

handleQueueList_Post(p) ==
  /\ pc[p] = "list_post"
  /\ replies' = PostMessage(p, msg[p])
  /\ pc' = [pc EXCEPT ![p] = "list_unlock"]
  /\ UNCHANGED <<shared, ev, id, tagIndex, queue, msg, budget,
                 log, started>>
  /\ Track(p)

\* the deferred sh.mu.Unlock()
handleQueueList_Unlock(p) ==
  /\ pc[p] = "list_unlock"
  /\ mu' = NoProc
  /\ pc' = [pc EXCEPT ![p] = "done"]
  /\ Return(p)
  /\ UNCHANGED <<Queues, NextID, ev, replies, budget,
                 log, started>>
  /\ Track(p)

(***************************************************************************)
(* handleQueueRemove                                                       *)
(***************************************************************************)
handleQueueRemove(p) ==
  /\ pc[p] = "remove"
  /\ LET r == parseQueueID(ev[p].Text)
     IN IF r.err
          THEN /\ replies' = PostMessage(p, r.text)
               /\ pc' = [pc EXCEPT ![p] = "done"]
               /\ UNCHANGED id
          ELSE /\ id' = [id EXCEPT ![p] = r.id]
               /\ pc' = [pc EXCEPT ![p] = "remove_lock"]
               /\ UNCHANGED replies
  /\ UNCHANGED <<shared, ev, tagIndex, queue, msg, budget,
                 log, started>>
  /\ Track(p)

\* a remove that gives the id of the newest entry back to NextID
handleQueueRemove_Lock_ReclaimID(p) ==
  /\ pc[p] = "remove_lock"
  /\ CanLock(p)
  /\ mu' = p
  /\ IF ~Exists(Queues, id[p])
       THEN /\ msg' = [msg EXCEPT ![p] = NotFoundMsg]
            /\ UNCHANGED <<Queues, NextID, log>>
       ELSE /\ Queues' = DeleteQueue(Queues, id[p])
            /\ NextID' = IF id[p] = NextID - 1 THEN id[p] ELSE NextID
            /\ log' = Append(log, [op |-> "remove", key |-> id[p]])
            /\ msg' = [msg EXCEPT ![p] = RemovedMsg]
  /\ pc' = [pc EXCEPT ![p] = "remove_post"]
  /\ UNCHANGED <<ev, id, tagIndex, queue, replies, budget, started>>
  /\ Track(p)

\* sh.mu.Lock(), the lookup and the delete
handleQueueRemove_Lock(p) ==
  /\ pc[p] = "remove_lock"
  /\ CanLock(p)
  /\ mu' = p
  /\ IF ~Exists(Queues, id[p])
       THEN /\ msg' = [msg EXCEPT ![p] = NotFoundMsg]
            /\ UNCHANGED <<Queues, log>>
       ELSE /\ Queues' = DeleteQueue(Queues, id[p])
            /\ log' = Append(log, [op |-> "remove", key |-> id[p]])
            /\ msg' = [msg EXCEPT ![p] = RemovedMsg]
  /\ pc' = [pc EXCEPT ![p] = "remove_post"]
  /\ UNCHANGED <<NextID, ev, id, tagIndex, queue, replies, budget, started>>
  /\ Track(p)

handleQueueRemove_Post(p) ==
  /\ pc[p] = "remove_post"
  /\ replies' = PostMessage(p, msg[p])
  /\ pc' = [pc EXCEPT ![p] = "remove_unlock"]
  /\ UNCHANGED <<shared, ev, id, tagIndex, queue, msg, budget,
                 log, started>>
  /\ Track(p)

\* the deferred sh.mu.Unlock()
handleQueueRemove_Unlock(p) ==
  /\ pc[p] = "remove_unlock"
  /\ mu' = NoProc
  /\ pc' = [pc EXCEPT ![p] = "done"]
  /\ Return(p)
  /\ UNCHANGED <<Queues, NextID, ev, replies, budget,
                 log, started>>
  /\ Track(p)


(***************************************************************************)
(* handleQueueApprove                                                      *)
(***************************************************************************)
handleQueueApprove(p) ==
  /\ pc[p] = "approve"
  /\ LET parts == Fields(ev[p].Text)
     IN IF Len(parts) < 3
          THEN /\ replies' = PostMessage(p, UsageApproveMsg)
               /\ pc' = [pc EXCEPT ![p] = "done"]
               /\ UNCHANGED id
          ELSE IF Atoi(parts[3]).err
          THEN /\ replies' = PostMessage(p, InvalidIDMsg)
               /\ pc' = [pc EXCEPT ![p] = "done"]
               /\ UNCHANGED id
          ELSE /\ id' = [id EXCEPT ![p] = Atoi(parts[3]).val]
               /\ pc' = [pc EXCEPT ![p] = "approve_lock"]
               /\ UNCHANGED replies
  /\ UNCHANGED <<shared, ev, tagIndex, queue, msg, budget,
                 log, started>>
  /\ Track(p)

\* a handler that looks for the tag and never at the length of tags
ApproveBranch_SearchOnly(tags, tag) ==
  IF FindTag(tags, tag) # NoIndex THEN "remove" ELSE "not_tagged"

\* the branch handleQueueApprove takes on the tags of the queue it found
ApproveBranch(tags, tag) ==
  IF Len(tags) > 0
    THEN IF FindTag(tags, tag) # NoIndex THEN "remove" ELSE "not_tagged"
    ELSE "completed"

\* an approve that gives the mutex up between its search and its removal
handleQueueApprove_Lock_ReleaseAfterSearch(p) ==
  /\ pc[p] = "approve_lock"
  /\ CanLock(p)
  /\ IF ~Exists(Queues, id[p])
       THEN /\ mu' = NoProc
            /\ msg' = [msg EXCEPT ![p] = NotFoundMsg]
            /\ pc' = [pc EXCEPT ![p] = "approve_post_return"]
            /\ UNCHANGED tagIndex
       ELSE LET tags == Queues[id[p]].Tags
                approvedTag == Mention(ev[p].User)
                branch == ApproveBranch(tags, approvedTag)
            IN IF branch = "remove"
                 THEN /\ mu' = NoProc
                      /\ tagIndex' = [tagIndex EXCEPT ![p] = FindTag(tags, approvedTag)]
                      /\ pc' = [pc EXCEPT ![p] = "approve_remove"]
                      /\ UNCHANGED msg
                 ELSE IF branch = "not_tagged"
                 THEN /\ mu' = NoProc
                      /\ msg' = [msg EXCEPT ![p] = TagNotFoundMsg]
                      /\ pc' = [pc EXCEPT ![p] = "approve_post_return"]
                      /\ UNCHANGED tagIndex
                 ELSE /\ mu' = NoProc
                      /\ msg' = [msg EXCEPT ![p] = CompletedMsg]
                      /\ pc' = [pc EXCEPT ![p] = "approve_post"]
                      /\ UNCHANGED tagIndex
  /\ UNCHANGED <<Queues, NextID, ev, id, queue, replies, budget, log, started>>
  /\ Track(p)

\* sh.mu.Lock(), the lookup and the search for the approver's tag; the
\* mutex is released on every branch but the one that found the tag
handleQueueApprove_Lock(p) ==
  /\ pc[p] = "approve_lock"
  /\ CanLock(p)
  /\ IF ~Exists(Queues, id[p])
       THEN /\ mu' = NoProc
            /\ msg' = [msg EXCEPT ![p] = NotFoundMsg]
            /\ pc' = [pc EXCEPT ![p] = "approve_post_return"]
            /\ UNCHANGED tagIndex
       ELSE LET tags == Queues[id[p]].Tags
                approvedTag == Mention(ev[p].User)
                branch == ApproveBranch(tags, approvedTag)
            IN IF branch = "remove"
                 THEN /\ mu' = p
                      /\ tagIndex' = [tagIndex EXCEPT ![p] = FindTag(tags, approvedTag)]
                      /\ pc' = [pc EXCEPT ![p] = "approve_remove"]
                      /\ UNCHANGED msg
                 ELSE IF branch = "not_tagged"
                 THEN /\ mu' = NoProc
                      /\ msg' = [msg EXCEPT ![p] = TagNotFoundMsg]
                      /\ pc' = [pc EXCEPT ![p] = "approve_post_return"]
                      /\ UNCHANGED tagIndex
                 ELSE /\ mu' = NoProc
                      /\ msg' = [msg EXCEPT ![p] = CompletedMsg]
                      /\ pc' = [pc EXCEPT ![p] = "approve_post"]
                      /\ UNCHANGED tagIndex
  /\ UNCHANGED <<Queues, NextID, ev, id, queue, replies, budget, log, started>>
  /\ Track(p)

\* the removal of the tag at tagIndex and sh.mu.Unlock()
handleQueueApprove_Remove(p) ==
  /\ pc[p] = "approve_remove"
  /\ Queues' = SetTags(Queues, id[p],
                       IF Exists(Queues, id[p])
                         THEN RemoveTag(Queues[id[p]].Tags, tagIndex[p])
                         ELSE <<>>)
  /\ mu' = NoProc
  /\ msg' = [msg EXCEPT ![p] = ApprovedMsg]
  /\ log' = Append(log, [op |-> "approve", key |-> id[p],
                          tag |-> Mention(ev[p].User)])
  /\ pc' = [pc EXCEPT ![p] = "approve_post"]
  /\ UNCHANGED <<NextID, ev, id, tagIndex, queue, replies, budget, started>>
  /\ Track(p)

\* the reply that ends the handler: not found, or the tag is not there
handleQueueApprove_PostReturn(p) ==
  /\ pc[p] = "approve_post_return"
  /\ replies' = PostMessage(p, msg[p])
  /\ pc' = [pc EXCEPT ![p] = "done"]
  /\ Return(p)
  /\ UNCHANGED <<shared, ev, budget, log, started>>
  /\ Track(p)

\* the reply that is followed by the call of handleQueueList
handleQueueApprove_Post(p) ==
  /\ pc[p] = "approve_post"
  /\ replies' = PostMessage(p, msg[p])
  /\ pc' = [pc EXCEPT ![p] = "list"]
  /\ UNCHANGED <<shared, ev, id, tagIndex, queue, msg, budget,
                 log, started>>
  /\ Track(p)

(***************************************************************************)
(* handleQueueReview and handleQueueUpdate                                 *)
(***************************************************************************)
handleQueueReview(p) ==
  /\ pc[p] = "review"
  /\ LET r == parseQueueID(ev[p].Text)
     IN IF r.err
          THEN /\ replies' = PostMessage(p, r.text)
               /\ pc' = [pc EXCEPT ![p] = "done"]
               /\ UNCHANGED id
          ELSE /\ id' = [id EXCEPT ![p] = r.id]
               /\ pc' = [pc EXCEPT ![p] = "review_lock"]
               /\ UNCHANGED replies
  /\ UNCHANGED <<shared, ev, tagIndex, queue, msg, budget,
                 log, started>>
  /\ Track(p)

\* a review that forgets the Unlock() of its early return
handleQueueReview_Lock_NoUnlockOnMiss(p) ==
  /\ pc[p] = "review_lock"
  /\ CanLock(p)
  /\ mu' = p
  /\ IF ~Exists(Queues, id[p])
       THEN /\ msg' = [msg EXCEPT ![p] = NotFoundMsg]
            /\ pc' = [pc EXCEPT ![p] = "review_post_return"]
            /\ UNCHANGED Queues
       ELSE /\ Queues' = SetInReviewState(Queues, id[p], TRUE)
            /\ msg' = [msg EXCEPT ![p] = InReviewMsg(Queues[id[p]])]
            /\ pc' = [pc EXCEPT ![p] = "review_post"]
  /\ UNCHANGED <<NextID, ev, id, tagIndex, queue, replies, budget,
                 log, started>>
  /\ Track(p)

\* sh.mu.Lock(), the lookup and the assignment; a missing id unlocks
handleQueueReview_Lock(p) ==
  /\ pc[p] = "review_lock"
  /\ CanLock(p)
  /\ IF ~Exists(Queues, id[p])
       THEN /\ mu' = NoProc
            /\ msg' = [msg EXCEPT ![p] = NotFoundMsg]
            /\ pc' = [pc EXCEPT ![p] = "review_post_return"]
            /\ UNCHANGED Queues
       ELSE /\ mu' = p
            /\ Queues' = SetInReviewState(Queues, id[p], TRUE)
            /\ msg' = [msg EXCEPT ![p] = InReviewMsg(Queues[id[p]])]
            /\ pc' = [pc EXCEPT ![p] = "review_post"]
  /\ UNCHANGED <<NextID, ev, id, tagIndex, queue, replies, budget,
                 log, started>>
  /\ Track(p)

handleQueueReview_PostReturn(p) ==
  /\ pc[p] = "review_post_return"
  /\ replies' = PostMessage(p, msg[p])
  /\ pc' = [pc EXCEPT ![p] = "done"]
  /\ Return(p)
  /\ UNCHANGED <<shared, ev, budget, log, started>>
  /\ Track(p)

handleQueueReview_Post(p) ==
  /\ pc[p] = "review_post"
  /\ replies' = PostMessage(p, msg[p])
  /\ pc' = [pc EXCEPT ![p] = "review_unlock"]
  /\ UNCHANGED <<shared, ev, id, tagIndex, queue, msg, budget,
                 log, started>>
  /\ Track(p)

\* sh.mu.Unlock() and the call of handleQueueList
handleQueueReview_Unlock(p) ==
  /\ pc[p] = "review_unlock"
  /\ mu' = NoProc
  /\ pc' = [pc EXCEPT ![p] = "list"]
  /\ UNCHANGED <<Queues, NextID, ev, id, tagIndex, queue, msg, replies, budget,
                 log, started>>
  /\ Track(p)

handleQueueUpdate(p) ==
  /\ pc[p] = "update"
  /\ LET r == parseQueueID(ev[p].Text)
     IN IF r.err
          THEN /\ replies' = PostMessage(p, r.text)
               /\ pc' = [pc EXCEPT ![p] = "done"]
               /\ UNCHANGED id
          ELSE /\ id' = [id EXCEPT ![p] = r.id]
               /\ pc' = [pc EXCEPT ![p] = "update_lock"]
               /\ UNCHANGED replies
  /\ UNCHANGED <<shared, ev, tagIndex, queue, msg, budget,
                 log, started>>
  /\ Track(p)

handleQueueUpdate_Lock(p) ==
  /\ pc[p] = "update_lock"
  /\ CanLock(p)
  /\ IF ~Exists(Queues, id[p])
       THEN /\ mu' = NoProc
            /\ msg' = [msg EXCEPT ![p] = NotFoundMsg]
            /\ pc' = [pc EXCEPT ![p] = "update_post_return"]
            /\ UNCHANGED Queues
       ELSE /\ mu' = p
            /\ Queues' = SetInReviewState(Queues, id[p], FALSE)
            /\ msg' = [msg EXCEPT ![p] = UpdatedMsg(Queues[id[p]])]
            /\ pc' = [pc EXCEPT ![p] = "update_post"]
  /\ UNCHANGED <<NextID, ev, id, tagIndex, queue, replies, budget,
                 log, started>>
  /\ Track(p)

handleQueueUpdate_PostReturn(p) ==
  /\ pc[p] = "update_post_return"
  /\ replies' = PostMessage(p, msg[p])
  /\ pc' = [pc EXCEPT ![p] = "done"]
  /\ Return(p)
  /\ UNCHANGED <<shared, ev, budget, log, started>>
  /\ Track(p)

handleQueueUpdate_Post(p) ==
  /\ pc[p] = "update_post"
  /\ replies' = PostMessage(p, msg[p])
  /\ pc' = [pc EXCEPT ![p] = "update_unlock"]
  /\ UNCHANGED <<shared, ev, id, tagIndex, queue, msg, budget,
                 log, started>>
  /\ Track(p)

handleQueueUpdate_Unlock(p) ==
  /\ pc[p] = "update_unlock"
  /\ mu' = NoProc
  /\ pc' = [pc EXCEPT ![p] = "list"]
  /\ UNCHANGED <<Queues, NextID, ev, id, tagIndex, queue, msg, replies, budget,
                 log, started>>
  /\ Track(p)

(***************************************************************************)
(* handleQueueHelp                                                         *)
(***************************************************************************)
handleQueueHelp(p) ==
  /\ pc[p] = "help"
  /\ replies' = PostMessage(p, HelpMsg)
  /\ pc' = [pc EXCEPT ![p] = "done"]
  /\ UNCHANGED <<shared, ev, id, tagIndex, queue, msg, budget,
                 log, started>>
  /\ Track(p)

(***************************************************************************)
(* The specification.                                                      *)
(***************************************************************************)
Next ==
  \E p \in Procs :
    \/ handleCallbackEvent(p)
    \/ handleQueueAdd(p)
    \/ handleQueueAdd_Lock(p)
    \/ handleQueueAdd_Insert(p)
    \/ handleQueueAdd_Post(p)
    \/ handleQueueAdd_Unlock(p)
    \/ handleQueueList(p)
    \/ handleQueueList_Post(p)
    \/ handleQueueList_Unlock(p)
    \/ handleQueueRemove(p)
    \/ handleQueueRemove_Lock(p)
    \/ handleQueueRemove_Post(p)
    \/ handleQueueRemove_Unlock(p)
    \/ handleQueueApprove(p)
    \/ handleQueueApprove_Lock(p)
    \/ handleQueueApprove_Remove(p)
    \/ handleQueueApprove_PostReturn(p)
    \/ handleQueueApprove_Post(p)
    \/ handleQueueReview(p)
    \/ handleQueueReview_Lock(p)
    \/ handleQueueReview_PostReturn(p)
    \/ handleQueueReview_Post(p)
    \/ handleQueueReview_Unlock(p)
    \/ handleQueueUpdate(p)
    \/ handleQueueUpdate_Lock(p)
    \/ handleQueueUpdate_PostReturn(p)
    \/ handleQueueUpdate_Post(p)
    \/ handleQueueUpdate_Unlock(p)
    \/ handleQueueHelp(p)
    \/ HandleEventEndpoint_Return(p)

Spec == Init /\ [][Next]_vars

\* the events are delivered one at a time: every handler returns before the
\* next event arrives
InitSeq ==
  /\ Queues = <<>>
  /\ NextID = 1
  /\ mu = NoProc
  /\ pc = [p \in Procs |-> IF p = 1 THEN "idle" ELSE "off"]
  /\ ev = [p \in Procs |-> NoEvent]
  /\ id = [p \in Procs |-> NoID]
  /\ tagIndex = [p \in Procs |-> NoIndex]
  /\ queue = [p \in Procs |-> NoQueue]
  /\ msg = [p \in Procs |-> <<>>]
  /\ replies = [p \in Procs |-> <<>>]
  /\ budget = MaxSeqCmds
  /\ log = <<>>
  /\ started = [p \in Procs |-> 0]
  /\ dirty = [p \in Procs |-> FALSE]

SpecSeq == InitSeq /\ [][Next]_vars

\* the labels at which a goroutine is about to call sh.mu.Lock(), and the
\* labels between a Lock() and the Unlock() that follows it
LockLabels ==
  {"add_lock", "list", "remove_lock", "approve_lock", "review_lock", "update_lock"}
HeldLabels ==
  {"add_insert", "add_post", "add_unlock", "list_post", "list_unlock",
   "remove_post", "remove_unlock", "approve_remove",
   "review_post", "review_unlock", "update_post", "update_unlock"}

\* a step of goroutine p, and a step of p that is no return of PostMessage
ProcStep(p) == Next /\ pc'[p] # pc[p]
NonPostingStep(p) == ProcStep(p) /\ Len(replies'[p]) <= Len(replies[p])

InitLive ==
  /\ Queues = <<>>
  /\ NextID = 1
  /\ mu = NoProc
  /\ pc = [p \in Procs |-> "idle"]
  /\ ev = [p \in Procs |-> NoEvent]
  /\ id = [p \in Procs |-> NoID]
  /\ tagIndex = [p \in Procs |-> NoIndex]
  /\ queue = [p \in Procs |-> NoQueue]
  /\ msg = [p \in Procs |-> <<>>]
  /\ replies = [p \in Procs |-> <<>>]
  /\ budget = MaxLiveCmds
  /\ log = <<>>
  /\ started = [p \in Procs |-> 0]
  /\ dirty = [p \in Procs |-> FALSE]

\* the goroutines are scheduled fairly and every call returns, but for the
\* PostMessage calls of goroutine 1, which may block for ever
SpecLive ==
  /\ InitLive /\ [][Next]_vars
  /\ WF_vars(NonPostingStep(1))
  /\ \A q \in Procs \ {1} : WF_vars(ProcStep(q))


(***************************************************************************)
(* Vocabulary of the properties.                                           *)
(***************************************************************************)
IsAdd(e) == e.op = "add"
IsRemove(e) == e.op = "remove"
IsApprove(e) == e.op = "approve"

\* the inserts, the deletes and the approvals made so far, each in order
Added == SelectSeq(log, IsAdd)
Removed == SelectSeq(log, IsRemove)
Approvals == SelectSeq(log, IsApprove)

Range(s) == {s[i] : i \in 1..Len(s)}

\* every key the map has ever held, and the ids that were deleted
EverKeys == {Added[i].key : i \in 1..Len(Added)}
RemovedIDs == {Removed[i].key : i \in 1..Len(Removed)}

\* the number of places of s that hold x
Count(s, x) == Cardinality({i \in 1..Len(s) : s[i] = x})

\* s without its k-th element
Without(s, k) == [i \in 1..(Len(s) - 1) |-> IF i < k THEN s[i] ELSE s[i + 1]]

\* the texts of what goroutine p has posted
Texts(p) == [i \in 1..Len(replies[p]) |-> replies[p][i].text]

\* goroutine p takes a step that leaves label l
Leaves(p, l) == pc[p] = l /\ pc'[p] # l

\* the events that are well-formed add commands
IsAddCommand(e) == Dispatch(e) = "add" /\ Len(Fields(e.Text)) >= 4

\* text s holds text sub as a run of consecutive characters
Contains(s, sub) ==
  \E i \in 1..(Len(s) - Len(sub) + 1) : SubSeq(s, i, i + Len(sub) - 1) = sub

\* the last text goroutine p has posted
LastText(p) == Texts(p)[Len(Texts(p))]

\* the lines of a text: its runs of characters that a newline ends, and
\* what follows the last newline
RECURSIVE LinesFrom(_, _, _)
LinesFrom(s, cur, acc) ==
  IF s = <<>> THEN [lines |-> acc, rest |-> cur]
  ELSE IF Head(s) = "\n" THEN LinesFrom(Tail(s), <<>>, Append(acc, cur))
  ELSE LinesFrom(Tail(s), Append(cur, Head(s)), acc)

Lines(s) == LinesFrom(s, <<>>, <<>>)

\* the texts handleQueueList may post for the map queues
Renderings(queues) ==
  IF DOMAIN queues = {} THEN {NoQueuesMsg}
  ELSE {QueueList(queues, order) : order \in RangeOrders(DOMAIN queues)}

\* the handlers that call handleQueueList when they have replied
EndsWithList == {"approve", "review", "update"}

\* the keyword a message that is handled by handler h should carry
Keyword(h) ==
  CASE h = "add" -> kwAdd
    [] h = "list" -> kwList
    [] h = "remove" -> kwRemove
    [] h = "approve" -> kwApprove
    [] h = "review" -> kwReview
    [] h = "update" -> kwUpdate
    [] h = "help" -> kwHelp

\* how a line of the list that shows the entry with id k begins
LineStart(k) == <<"ID: ">> \o Itoa(k) \o <<" | Title: ">>

(***************************************************************************)
(* C1: when handleQueueAdd runs in several goroutines at once, in any      *)
(* interleaving, the map holds one more entry for every add, each add got  *)
(* an id of its own, and NextID has advanced by one for every add: no two  *)
(* adds observe the same id and no add is lost.                            *)
(***************************************************************************)
C1_ConcurrentAddsDistinct ==
  /\ NextID = 1 + Len(Added)
  /\ \A i, j \in 1..Len(Added) :
       i # j => /\ Added[i].key # Added[j].key
                /\ Added[i].queue.ID # Added[j].queue.ID
  /\ \A i \in 1..Len(Added) : Added[i].key = Added[i].queue.ID
  /\ DOMAIN Queues = EverKeys \ RemovedIDs
  /\ Cardinality(DOMAIN Queues) = Len(Added) - Len(Removed)

\* two adds that arrived before either had inserted have both inserted
C1_Witness ==
  \E p, q \in Procs :
    /\ p # q
    /\ IsAddCommand(ev[p]) /\ IsAddCommand(ev[q])
    /\ started[p] = 0 /\ started[q] = 0
    /\ dirty[p] /\ dirty[q]
    /\ pc[p] = "done" /\ pc[q] = "done"
    /\ Len(Added) = 2
    /\ NextID = 3
    /\ DOMAIN Queues = {1, 2}

(***************************************************************************)
(* C2: over any sequence of commands, removes between adds included, the   *)
(* ids that successive adds assign are strictly increasing and start at 1; *)
(* NextID never decreases and is greater than every id that has ever been  *)
(* a key of the map, so an id is never assigned twice.                     *)
(***************************************************************************)
C2_IdsIncreasing ==
  /\ [](/\ Len(Added) > 0 => Added[1].key = 1
        /\ \A i \in 1..Len(Added) : \A j \in 1..Len(Added) :
             i < j => Added[i].key < Added[j].key
        /\ \A k \in EverKeys : k < NextID
        /\ DOMAIN Queues \subseteq EverKeys)
  /\ [][NextID' >= NextID]_vars

\* an add, then the remove of its entry, then a second add, which got id 2
C2_Witness ==
  /\ Len(log) = 3
  /\ log[1].op = "add" /\ log[1].key = 1
  /\ log[2].op = "remove" /\ log[2].key = 1
  /\ log[3].op = "add" /\ log[3].key = 2
  /\ DOMAIN Queues = {2}
  /\ NextID = 3


(***************************************************************************)
(* C3: an approve by user u of an existing entry whose tags hold u's       *)
(* mention <@u> removes exactly one occurrence of it, the first, and       *)
(* leaves every other tag, later copies of u's mention included, in place  *)
(* and in order; the entry's other fields, the other entries and NextID    *)
(* stay as they were.                                                      *)
(***************************************************************************)
C3_ApproveRemovesFirstTag ==
  [][\A p \in Procs :
       LET tag == Mention(ev[p].User)
       IN /\ ( /\ Leaves(p, "approve_lock")
               /\ Exists(Queues, id[p])
               /\ tag \in Range(Queues[id[p]].Tags) )
             => /\ pc'[p] = "approve_remove"
                /\ Queues' = Queues /\ NextID' = NextID
          /\ (pc[p] = "approve_remove" /\ pc'[p] = "approve_remove")
             => Queues' = Queues /\ NextID' = NextID
          /\ Leaves(p, "approve_remove")
             => /\ Exists(Queues, id[p])
                /\ NextID' = NextID
                /\ \E k \in 1..Len(Queues[id[p]].Tags) :
                     /\ Queues[id[p]].Tags[k] = tag
                     /\ \A j \in 1..(k - 1) : Queues[id[p]].Tags[j] # tag
                     /\ Queues' = [Queues EXCEPT ![id[p]].Tags = Without(@, k)]
  ]_vars

\* user a has approved an entry added with the tags <@a> <@b> <@a>, next to
\* a second entry: <@b> and the later <@a> are left
C3_Witness ==
  \E p \in Procs :
    /\ pc[p] = "approve_post"
    /\ msg[p] = ApprovedMsg
    /\ ev[p].User = UserA
    /\ Cardinality(DOMAIN Queues) = 2
    /\ Exists(Queues, 1)
    /\ Queues[1].Tags = <<Mention(UserB), Mention(UserA)>>
    /\ Added[1].queue.Tags = <<Mention(UserA), Mention(UserB), Mention(UserA)>>

(***************************************************************************)
(* C4: an approve by user u of an existing entry whose tags are not empty  *)
(* and do not hold u's mention is answered with "Your tag was not found in *)
(* the queue." and nothing else: the map and NextID stay as they were and  *)
(* the list is not appended.                                               *)
(***************************************************************************)
C4_ApproveNotTagged ==
  /\ [][\A p \in Procs :
          /\ ( /\ Leaves(p, "approve_lock")
               /\ Exists(Queues, id[p])
               /\ Queues[id[p]].Tags # <<>>
               /\ Mention(ev[p].User) \notin Range(Queues[id[p]].Tags) )
             => /\ pc'[p] = "approve_post_return"
                /\ msg'[p] = TagNotFoundMsg
                /\ Queues' = Queues /\ NextID' = NextID
          /\ Leaves(p, "approve_post_return")
             => /\ pc'[p] = "done"
                /\ Texts(p)' = Append(Texts(p), msg[p])
                /\ Queues' = Queues /\ NextID' = NextID
     ]_vars
  /\ [](\A p \in Procs :
          TagNotFoundMsg \in Range(Texts(p))
            => /\ pc[p] = "done"
               /\ Texts(p) = <<TagNotFoundMsg>>
               /\ ~dirty[p])

\* user c was refused on an entry that still carries both its tags
C4_Witness ==
  \E p \in Procs :
    /\ pc[p] = "done"
    /\ ev[p].User = UserC
    /\ Texts(p) = <<TagNotFoundMsg>>
    /\ Exists(Queues, 1)
    /\ Queues[1].Tags = <<Mention(UserA), Mention(UserB)>>
    /\ ~Queues[1].InReviewState


(***************************************************************************)
(* C5: an approve of an existing entry whose tags are already empty is     *)
(* answered with "Queue completed; no tags left." whoever the user is,     *)
(* never with "Your tag was not found in the queue.", and changes neither  *)
(* the map nor NextID; so after an add with two tags and the approves of   *)
(* both tagged users, the approve of a third user gets the completion      *)
(* notice.                                                                 *)
(***************************************************************************)
C5_ApproveOnEmptyTags ==
  /\ [][\A p \in Procs :
          /\ ( /\ Leaves(p, "approve_lock")
               /\ Exists(Queues, id[p])
               /\ Queues[id[p]].Tags = <<>> )
             => /\ pc'[p] = "approve_post"
                /\ msg'[p] = CompletedMsg
                /\ Queues' = Queues /\ NextID' = NextID
          /\ Leaves(p, "approve_post")
             => /\ Texts(p)' = Append(Texts(p), msg[p])
                /\ Queues' = Queues /\ NextID' = NextID
     ]_vars
  /\ [](\A p \in Procs :
          CompletedMsg \in Range(Texts(p))
            => /\ Texts(p)[1] = CompletedMsg
               /\ TagNotFoundMsg \notin Range(Texts(p))
               /\ ~dirty[p])

\* add with the tags <@a> <@b>, approve by a, approve by b, and then the
\* approve by c has got the completion notice
C5_Witness ==
  /\ pc[1] = "done"
  /\ Dispatch(ev[1]) = "approve"
  /\ ev[1].User = UserC
  /\ Len(Texts(1)) = 2
  /\ Texts(1)[1] = CompletedMsg
  /\ Len(log) = 3
  /\ log[1].op = "add"
  /\ log[1].queue.Tags = <<Mention(UserA), Mention(UserB)>>
  /\ log[2] = [op |-> "approve", key |-> 1, tag |-> Mention(UserA)]
  /\ log[3] = [op |-> "approve", key |-> 1, tag |-> Mention(UserB)]
  /\ Exists(Queues, 1)
  /\ Queues[1].Tags = <<>>

(***************************************************************************)
(* C6: once a remove of an id has succeeded, every later remove, approve,  *)
(* review or update that names the id is answered "Queue not found." and   *)
(* changes nothing, whatever ran in between, further adds included.        *)
(***************************************************************************)
C6_RemovedStaysNotFound ==
  /\ [][\A p \in Procs :
          /\ ( /\ \/ Leaves(p, "remove_lock") \/ Leaves(p, "approve_lock")
                  \/ Leaves(p, "review_lock") \/ Leaves(p, "update_lock")
               /\ id[p] \in RemovedIDs )
             => /\ msg'[p] = NotFoundMsg
                /\ pc'[p] \in {"remove_post", "approve_post_return",
                               "review_post_return", "update_post_return"}
                /\ Queues' = Queues /\ NextID' = NextID
          /\ ( /\ \/ Leaves(p, "remove_post") \/ Leaves(p, "approve_post_return")
                  \/ Leaves(p, "review_post_return") \/ Leaves(p, "update_post_return")
               /\ msg[p] = NotFoundMsg )
             => /\ Texts(p)' = <<NotFoundMsg>>
                /\ pc'[p] \in {"remove_unlock", "done"}
                /\ Queues' = Queues /\ NextID' = NextID
     ]_vars
  /\ [](/\ RemovedIDs \cap DOMAIN Queues = {}
        /\ \A p \in Procs :
             NotFoundMsg \in Range(Texts(p))
               => Texts(p) = <<NotFoundMsg>> /\ ~dirty[p])

\* add, remove of id 1, a second add, and then a review of id 1 was answered
\* "Queue not found."
C6_Witness ==
  /\ pc[1] = "done"
  /\ Dispatch(ev[1]) = "review"
  /\ Texts(1) = <<NotFoundMsg>>
  /\ Len(log) = 3
  /\ log[1].op = "add" /\ log[1].key = 1
  /\ log[2] = [op |-> "remove", key |-> 1]
  /\ log[3].op = "add" /\ log[3].key = 2
  /\ DOMAIN Queues = {2}

(***************************************************************************)
(* C7: review sets the InReviewState of its entry to true and update sets  *)
(* it to false, and neither changes anything else: not the entry's tags,   *)
(* owner, title or link, not another entry, not NextID.  So a review and   *)
(* then an update of an entry leave it not in review with its tags as      *)
(* before, and a second review or a second update changes nothing.         *)
(***************************************************************************)
C7_ReviewUpdateOnlyFlag ==
  [][\A p \in Procs :
       /\ (Leaves(p, "review_lock") /\ Exists(Queues, id[p]))
          => /\ Queues' = [Queues EXCEPT ![id[p]].InReviewState = TRUE]
             /\ Queues[id[p]].InReviewState => Queues' = Queues
             /\ NextID' = NextID
       /\ (Leaves(p, "update_lock") /\ Exists(Queues, id[p]))
          => /\ Queues' = [Queues EXCEPT ![id[p]].InReviewState = FALSE]
             /\ ~Queues[id[p]].InReviewState => Queues' = Queues
             /\ NextID' = NextID
       /\ ( \/ Leaves(p, "review") \/ Leaves(p, "review_post")
            \/ Leaves(p, "review_unlock") \/ Leaves(p, "review_post_return")
            \/ Leaves(p, "update") \/ Leaves(p, "update_post")
            \/ Leaves(p, "update_unlock") \/ Leaves(p, "update_post_return")
            \/ ( /\ \/ Leaves(p, "review_lock") \/ Leaves(p, "update_lock")
                 /\ ~Exists(Queues, id[p]) ) )
          => Queues' = Queues /\ NextID' = NextID
  ]_vars

\* a review has set the flag of entry 1 and, after it, an update has cleared
\* it again: the entry is not in review and has the tags it was added with
C7_Witness ==
  \E p, q \in Procs :
    /\ Dispatch(ev[p]) = "review" /\ dirty[p]
    /\ pc[p] \in {"list", "list_post", "list_unlock", "done"}
    /\ Dispatch(ev[q]) = "update" /\ dirty[q]
    /\ pc[q] = "update_post"
    /\ Len(log) = 1
    /\ Exists(Queues, 1)
    /\ Queues[1] = log[1].queue
    /\ Queues[1].Tags = <<Mention(UserA), Mention(UserB), Mention(UserA)>>


(***************************************************************************)
(* C8: no handler calls API.PostMessage while it holds sh.mu: add, list,   *)
(* remove, approve, review and update all release the mutex before they    *)
(* post a reply.                                                           *)
(***************************************************************************)
C8_NoPostWhileLocked ==
  \A p \in Procs : \A i \in 1..Len(replies[p]) : ~replies[p][i].locked

(***************************************************************************)
(* C9: the lookup, the search for the tag and its removal are one critical *)
(* section of handleQueueApprove, so approves of one entry that run at the *)
(* same time lose no update: every approval granted took one occurrence of *)
(* the approver's tag out of the entry.  Two tagged users who approve at   *)
(* once both get their tags removed; of two approves of a user whose tag   *)
(* occurs once, one removes it and the other is told that the tag was not  *)
(* found or that no tags are left.                                         *)
(***************************************************************************)
C9_ApproveAtomic ==
  /\ \A p \in Procs :
       pc[p] = "approve_remove"
         => /\ mu = p
            /\ Exists(Queues, id[p])
            /\ tagIndex[p] + 1 \in 1..Len(Queues[id[p]].Tags)
            /\ Queues[id[p]].Tags[tagIndex[p] + 1] = Mention(ev[p].User)
  /\ \A k \in DOMAIN Queues :
       \E i \in 1..Len(Added) :
         /\ Added[i].key = k
         /\ \A u \in {UserA, UserB, UserC} :
              Count(Added[i].queue.Tags, Mention(u))
                = Count(Queues[k].Tags, Mention(u))
                  + Count(Approvals, [op |-> "approve", key |-> k, tag |-> Mention(u)])

\* users a and b, both tagged on entry 1, sent their approves before either
\* was granted; both were granted and both tags are gone
C9_Witness ==
  \E p, q \in Procs :
    /\ Dispatch(ev[p]) = "approve" /\ ev[p].User = UserA
    /\ Dispatch(ev[q]) = "approve" /\ ev[q].User = UserB
    /\ started[p] = 1 /\ started[q] = 1
    /\ pc[p] = "approve_post" /\ msg[p] = ApprovedMsg
    /\ pc[q] = "approve_post" /\ msg[q] = ApprovedMsg
    /\ log[1].op = "add"
    /\ log[1].queue.Tags = <<Mention(UserA), Mention(UserB)>>
    /\ Exists(Queues, 1)
    /\ Queues[1].Tags = <<>>

(***************************************************************************)
(* C10: a command that ends with a usage or invalid-id message (add with   *)
(* no title or link; remove, approve, review or update with no id or an id *)
(* that is no integer), with "Queue not found." or with "Your tag was not  *)
(* found in the queue." has left the map and NextID as they were; a        *)
(* malformed add takes no id.                                              *)
(***************************************************************************)
ErrorMsgs ==
  {UsageAddMsg, UsageApproveMsg, UsageIDMsg, InvalidIDMsg, NotFoundMsg, TagNotFoundMsg}

C10_ErrorsLeaveRegistry ==
  /\ [][\A p \in Procs :
          (Texts(p)' # Texts(p) /\ Texts(p)' # <<>> /\ Texts(p)'[Len(Texts(p)')] \in ErrorMsgs)
            => Queues' = Queues /\ NextID' = NextID
     ]_vars
  /\ [](\A p \in Procs :
          (Range(Texts(p)) \cap ErrorMsgs # {})
            => /\ ~dirty[p]
               /\ Len(Texts(p)) = 1)

\* an add without a link, sent after one entry had been added, was answered
\* with the usage message and NextID is still 2
C10_Witness ==
  \E p \in Procs :
    /\ pc[p] = "done"
    /\ Dispatch(ev[p]) = "add"
    /\ Texts(p) = <<UsageAddMsg>>
    /\ started[p] = 1
    /\ Len(log) = 1
    /\ NextID = 2
    /\ DOMAIN Queues = {1}


(***************************************************************************)
(* C11: a successful add inserts exactly one new entry whose title, link,  *)
(* tags (in the given order, possibly none) and owner are its arguments    *)
(* and whose InReviewState is false, and its confirmation reply holds the  *)
(* id it assigned together with the title, the link and the tag list.      *)
(***************************************************************************)
C11_AddInsertsAndReportsID ==
  \A p \in Procs :
    pc[p] = "add_unlock"
      => LET parts == Fields(ev[p].Text)
             q == queue[p]
         IN /\ Exists(Queues, q.ID)
            /\ Queues[q.ID] = [ID |-> q.ID, Title |-> parts[3], MRLink |-> parts[4],
                                Tags |-> SubSeq(parts, 5, Len(parts)),
                                Owner |-> ev[p].User, InReviewState |-> FALSE]
            /\ NextID = q.ID + 1
            /\ Len(Texts(p)) = 1
            /\ Contains(LastText(p), parts[3])
            /\ Contains(LastText(p), parts[4])
            /\ Contains(LastText(p), Join(SubSeq(parts, 5, Len(parts)), <<", ">>))
            /\ Contains(LastText(p), Itoa(q.ID))

(***************************************************************************)
(* C12: list answers "No queues available." exactly when the map is empty  *)
(* at the moment it reads it; otherwise it posts one text that holds one   *)
(* line for every entry that is in the map at that moment, and no line for *)
(* an entry that was removed.                                              *)
(***************************************************************************)
C12_ListRendersRegistry ==
  [][\A p \in Procs :
       /\ Leaves(p, "list")
          => /\ Queues' = Queues
             /\ (msg'[p] = NoQueuesMsg) <=> (DOMAIN Queues = {})
             /\ DOMAIN Queues # {}
                => LET r == Lines(msg'[p])
                   IN /\ r.rest = <<>>
                      /\ Len(r.lines) = Cardinality(DOMAIN Queues)
                      /\ \A k \in DOMAIN Queues :
                           Cardinality({i \in 1..Len(r.lines) :
                                          HasPrefix(r.lines[i], LineStart(k))}) = 1
                      /\ \A k \in RemovedIDs : \A i \in 1..Len(r.lines) :
                           ~HasPrefix(r.lines[i], LineStart(k))
       /\ Leaves(p, "list_post")
          => /\ Texts(p)' = Append(Texts(p), msg[p])
             /\ Queues' = Queues
  ]_vars

\* two adds, the remove of entry 1, and then a list that was answered with
\* the one line of entry 2
C12_Witness ==
  /\ pc[1] = "done"
  /\ Dispatch(ev[1]) = "list"
  /\ Len(log) = 3
  /\ log[3] = [op |-> "remove", key |-> 1]
  /\ DOMAIN Queues = {2}
  /\ Len(Texts(1)) = 1
  /\ Len(Lines(Texts(1)[1]).lines) = 1
  /\ HasPrefix(Texts(1)[1], LineStart(2))


(***************************************************************************)
(* C13: every handler gives sh.mu back once for each time it took it, on   *)
(* every way out: the mutex is never unlocked by a goroutine that does not *)
(* hold it, no goroutine holds it when its handler has returned, and the   *)
(* call of handleQueueList that ends approve, review and update is made    *)
(* when the caller has released it, so no handler waits for itself.        *)
(***************************************************************************)
C13_LockDiscipline ==
  /\ [](\A p \in Procs : (mu = p) <=> (pc[p] \in HeldLabels))
  /\ [][mu' # mu =>
         \/ /\ mu = NoProc
            /\ \E p \in Procs :
                 mu' = p /\ pc[p] \in LockLabels /\ pc'[p] \in HeldLabels
         \/ /\ mu' = NoProc
            /\ \E p \in Procs :
                 mu = p /\ pc[p] \in HeldLabels /\ pc'[p] \notin HeldLabels
     ]_vars
  /\ [][\A p \in Procs :
          (pc'[p] \in {"done", "list"} /\ pc[p] # pc'[p]) => mu' # p
     ]_vars

\* an approve that removed a tag is about to call handleQueueList with the
\* mutex free, and a review of a missing id has returned
C13_Witness ==
  \E p, q \in Procs :
    /\ pc[p] = "list"
    /\ Dispatch(ev[p]) = "approve"
    /\ Texts(p) = <<ApprovedMsg>>
    /\ mu = NoProc
    /\ pc[q] = "done"
    /\ Dispatch(ev[q]) = "review"
    /\ Texts(q) = <<NotFoundMsg>>

(***************************************************************************)
(* C14: when the PostMessage call of one handler blocks for ever, every    *)
(* other handler that runs at the same time, scheduled fairly and with its *)
(* own PostMessage calls returning, still takes sh.mu and completes.       *)
(***************************************************************************)
C14_OthersComplete ==
  \A q \in Procs \ {1} : (pc[q] \in LockLabels) ~> (pc[q] = "done")


(***************************************************************************)
(* C15: the approve that removes the last tag of an entry does not delete  *)
(* the entry, does not change its InReviewState and sets no completed      *)
(* marker: the entry stays in the map with no tags and the InReviewState   *)
(* it had until a remove deletes it; no step of an approve changes the     *)
(* InReviewState of any entry.                                             *)
(***************************************************************************)
C15_ApproveKeepsEntry ==
  [][/\ \A p \in Procs :
          /\ (Dispatch(ev[p]) = "approve" /\ pc'[p] # pc[p])
             => /\ DOMAIN Queues' = DOMAIN Queues
                /\ NextID' = NextID
                /\ \A k \in DOMAIN Queues :
                     /\ Queues'[k].InReviewState = Queues[k].InReviewState
                     /\ DOMAIN Queues'[k] = DOMAIN NoQueue
          /\ ( /\ Leaves(p, "approve_remove")
               /\ Exists(Queues, id[p])
               /\ Len(Queues[id[p]].Tags) = 1 )
             => Queues' = [Queues EXCEPT ![id[p]].Tags = <<>>]
     /\ \A k \in DOMAIN Queues :
          k \notin DOMAIN Queues'
            => \E p \in Procs :
                 Leaves(p, "remove_lock") /\ id[p] = k /\ Dispatch(ev[p]) = "remove"
  ]_vars

\* user a has approved entry 1, which was in review and carried a's tag
\* only: the entry is still there, in review, with no tags
C15_Witness ==
  \E p \in Procs :
    /\ pc[p] = "done"
    /\ Dispatch(ev[p]) = "approve"
    /\ Texts(p)[1] = ApprovedMsg
    /\ Len(log) = 2
    /\ log[1].op = "add"
    /\ log[1].queue.Tags = <<Mention(UserA)>>
    /\ log[2] = [op |-> "approve", key |-> 1, tag |-> Mention(UserA)]
    /\ Exists(Queues, 1)
    /\ Queues[1].Tags = <<>>
    /\ Queues[1].InReviewState

(***************************************************************************)
(* C16: in any interleaving of commands the tags of an entry only shrink:  *)
(* a step leaves them as they are or, as the removal of an approve, takes  *)
(* one element out and keeps the others in order; nothing adds a tag or    *)
(* moves one, and tags that are empty stay empty while the entry exists.   *)
(***************************************************************************)
C16_TagsOnlyShrink ==
  [][/\ \A k \in DOMAIN Queues \cap DOMAIN Queues' :
          LET tags == Queues[k].Tags
              after == Queues'[k].Tags
          IN /\ \/ after = tags
                \/ /\ \E i \in 1..Len(tags) : after = Without(tags, i)
                   /\ \E p \in Procs : Leaves(p, "approve_remove") /\ id[p] = k
             /\ tags = <<>> => after = <<>>
     /\ \A k \in DOMAIN Queues' \ DOMAIN Queues :
          /\ k \notin EverKeys
          /\ \E p \in Procs :
               /\ Leaves(p, "add_insert")
               /\ Queues'[k].Tags = SubSeq(Fields(ev[p].Text), 5, Len(Fields(ev[p].Text)))
  ]_vars

\* an entry added with the tags <@a> <@b> <@a> has been approved twice by
\* user a: only <@b> is left
C16_Witness ==
  /\ Len(log) = 3
  /\ log[1].op = "add"
  /\ log[1].queue.Tags = <<Mention(UserA), Mention(UserB), Mention(UserA)>>
  /\ log[2] = [op |-> "approve", key |-> 1, tag |-> Mention(UserA)]
  /\ log[3] = [op |-> "approve", key |-> 1, tag |-> Mention(UserA)]
  /\ Exists(Queues, 1)
  /\ Queues[1].Tags = <<Mention(UserB)>>


(***************************************************************************)
(* C17: in the text of a list, the line of an entry that is in review ends *)
(* with its owner and shows no tag list, and the line of an entry that is  *)
(* not in review ends with its tag list and shows no owner, whether the    *)
(* entry has tags or not.                                                  *)
(***************************************************************************)
C17_ListShowsOwnerOrTags ==
  [][\A p \in Procs :
       (Leaves(p, "list") /\ DOMAIN Queues # {})
         => LET lines == Lines(msg'[p]).lines
            IN \A k \in DOMAIN Queues :
                 \E i \in 1..Len(lines) :
                   LET line == lines[i]
                       shown == IF Queues[k].InReviewState
                                  THEN <<"Owner: ">> \o Mention(Queues[k].Owner)
                                  ELSE <<"Tags: ">> \o Join(Queues[k].Tags, <<", ">>)
                   IN /\ HasPrefix(line, LineStart(k))
                      /\ Len(line) >= Len(shown)
                      /\ SubSeq(line, Len(line) - Len(shown) + 1, Len(line)) = shown
                      /\ Queues[k].InReviewState => ~Contains(line, <<"Tags: ">>)
                      /\ ~Queues[k].InReviewState => ~Contains(line, <<"Owner: ">>)
  ]_vars

\* a list of two entries has been rendered: entry 1 is in review and has a
\* tag, entry 2 is not in review and has none
C17_Witness ==
  \E p \in Procs :
    /\ pc[p] = "list_post"
    /\ DOMAIN Queues = {1, 2}
    /\ Queues[1].InReviewState /\ Queues[1].Tags = <<Mention(UserA)>>
    /\ ~Queues[2].InReviewState /\ Queues[2].Tags = <<>>
    /\ Len(Lines(msg[p]).lines) = 2
    /\ \E i \in 1..2 :
         /\ HasPrefix(Lines(msg[p]).lines[i], LineStart(1))
         /\ Contains(Lines(msg[p]).lines[i], <<"Owner: ">> \o Mention(Queues[1].Owner))

(***************************************************************************)
(* C18: in every reachable state every key k of the map maps to an entry   *)
(* whose ID is k, with 1 <= k < NextID; no step stores an entry under a    *)
(* key that is not its id, and no step changes the id of an entry.         *)
(***************************************************************************)
C18_KeyIsID ==
  /\ [](\A k \in DOMAIN Queues :
          Queues[k].ID = k /\ 1 <= k /\ k < NextID)
  /\ [][\A k \in DOMAIN Queues \cap DOMAIN Queues' :
          Queues'[k].ID = Queues[k].ID]_vars

\* after two adds and the remove of entry 1, the map holds entry 2 under
\* the key 2
C18_Witness ==
  /\ Len(Added) = 2
  /\ RemovedIDs = {1}
  /\ DOMAIN Queues = {2}
  /\ Queues[2].ID = 2
  /\ NextID = 3


(***************************************************************************)
(* C19: the list that follows a successful approve, review or update is    *)
(* taken in a critical section of its own, entered when the handler has    *)
(* released the mutex of its change: it renders one state of the map, the  *)
(* one the map is in when the list holds the mutex, which is the state the *)
(* handler's change produced or a later one, so that what other commands   *)
(* did in between (the remove of the entry, say) shows in it.              *)
(***************************************************************************)
C19_ListAfterMutation ==
  /\ [](\A p \in Procs :
          Dispatch(ev[p]) \in EndsWithList
            => /\ pc[p] = "list" => mu # p
               /\ pc[p] \in {"list_post", "list_unlock"}
                    => mu = p /\ msg[p] \in Renderings(Queues)
               /\ pc[p] \in {"review_post", "review_unlock"}
                    => Exists(Queues, id[p]) /\ Queues[id[p]].InReviewState
               /\ pc[p] \in {"update_post", "update_unlock"}
                    => Exists(Queues, id[p]) /\ ~Queues[id[p]].InReviewState
               /\ (pc[p] \in {"list", "list_post", "list_unlock"}
                     /\ Texts(p) = <<ApprovedMsg>>)
                    => \E i \in (started[p] + 1)..Len(log) :
                         log[i] = [op |-> "approve", key |-> id[p],
                                   tag |-> Mention(ev[p].User)])
  /\ [][\A p \in Procs :
          (Leaves(p, "list") /\ Dispatch(ev[p]) \in EndsWithList)
            => /\ mu = NoProc /\ mu' = p
               /\ Len(Texts(p)) = 1
               /\ Queues' = Queues
               /\ msg'[p] \in Renderings(Queues)
     ]_vars

\* a review of entry 1 has replied, a remove of entry 1 ran before the
\* review took its list, and the list it is about to post is "No queues
\* available."
C19_Witness ==
  \E p \in Procs :
    /\ Dispatch(ev[p]) = "review"
    /\ pc[p] = "list_post"
    /\ Len(Texts(p)) = 1
    /\ Contains(Texts(p)[1], <<" is now in review.">>)
    /\ msg[p] = NoQueuesMsg
    /\ RemovedIDs = {1}
    /\ Queues = <<>>

(***************************************************************************)
(* C20: a message is handled as a verb only when its first two tokens are  *)
(* "queue" and that verb, and the id the handler uses is the token after   *)
(* the verb; a message whose second token only starts with the name of a   *)
(* verb, like "queue removed 3", is not handled as that verb and changes   *)
(* neither the map nor NextID.                                             *)
(***************************************************************************)
C20_DispatchByTokens ==
  \A p \in Procs :
    LET tokens == Fields(ev[p].Text)
        exact == /\ Len(tokens) >= 2
                 /\ tokens[1] = kwQueue
                 /\ tokens[2] = Keyword(Dispatch(ev[p]))
    IN /\ Dispatch(ev[p]) # "done" => exact
       /\ dirty[p] => exact
       /\ pc[p] \in {"remove_lock", "approve_lock", "review_lock", "update_lock"}
            => id[p] = Atoi(tokens[3]).val

=============================================================================
